---- MODULE Spec2Model ----
(***************************************************************************)
(* Model of the SurEtBon backend: the two snapshot ingestion scripts       *)
(* (bin/download_alimconfiance_data.py, bin/download_osm_data.py), the     *)
(* bucket setup script (bin/setup_bucket.py) and the lookup endpoint of    *)
(* main.py.                                                                *)
(*                                                                         *)
(* An ingestion run is an operating-system process; its position in main() *)
(* is pc[p], and every call it makes to the outside (HTTP source, local    *)
(* disk, storage bucket, database) is one step whose outcome is chosen by  *)
(* the environment.  The local disk, the bucket and the bronze tables      *)
(* outlive a run; the locals of a run are reset when the slot is started   *)
(* again.                                                                  *)
(***************************************************************************)
EXTENDS Integers, Sequences, FiniteSets, TLC

\* ------------------------------------------------------------------ bounds
MaxRuns == 2      \* ingestion processes started in one behaviour
MaxDay  == 1      \* the clock runs over the days 0..MaxDay
MaxSnap == 2      \* the source serves snapshot s, a file of s rows, 1..MaxSnap
MaxRows == 2      \* rows of the warehouse table
MaxCoord == 1     \* coordinates run over -MaxCoord..MaxCoord half degrees
MaxHist == 2      \* entries in the inspection history of a warehouse row
MaxSetupRuns == 2 \* setup_bucket.py processes started in one behaviour
MaxDate == 62     \* the date functions are called on the days 0..MaxDate

\* --------------------------------------------------------------- constants
None == "None"
Scripts == {"alim", "osm"}
\* process slots: runs in succession reuse slot 1
Procs == {1, 2}
Days == 0..MaxDay
Snapshots == 1..MaxSnap

\* load_environment: required_vars of the ingestion scripts
RequiredVars == <<"SUPABASE_URL", "SUPABASE_SERVICE_ROLE_KEY", "SUPABASE_DB_URI">>
\* what os.getenv can give for a key: unset, the empty string, a value
EnvValues == {None, "", "v"}
\* the configuration a process finds: no .env file, or a value per key
RequiredKeys == {RequiredVars[i] : i \in 1..Len(RequiredVars)}
NoEnvFile == [exists |-> FALSE]
EnvFiles == {NoEnvFile} \cup [exists : {TRUE}, vars : [RequiredKeys -> EnvValues]]

\* ------------------------------------------------------------------- dates
\* datetime.weekday() of the day with proleptic ordinal d: 0 = Monday
weekday(d) == (d + 6) % 7

\* strftime('%Y-%m-%d'): the label of a day, one label per day
strftime(d) == ToString(d)

get_alimconfiance_date(now) == strftime(now)

\* get_osm_date without the step back to Monday
get_osm_date_today(now) == strftime(now)

get_osm_date(now) ==
    LET days_since_monday == weekday(now)
        osm_date == IF days_since_monday = 0 THEN now ELSE now - days_since_monday
    IN  strftime(osm_date)

\* the date label a script computes when the clock shows `now`
DateLabel(s, now) ==
    IF s = "alim" THEN get_alimconfiance_date(now) ELSE get_osm_date(now)

Dates == {DateLabel(s, d) : s \in Scripts, d \in Days}
\* a local temporary file <dataset>-<date>.parquet, a bucket object
\* <dataset>/<date>.parquet: both are named by (dataset, date)
Paths == {<<s, DateLabel(s, d)>> : s \in Scripts, d \in Days}
NoPath == <<>>

\* ------------------------------------------------------------------- files
\* content of a file: absent, zero bytes, a truncated body, or snapshot s
NoFile == <<"none">>
EmptyFile == <<"empty">>
PartialFile == <<"partial">>
Snap(s) == <<"snapshot", s>>
SnapFiles == {Snap(s) : s \in Snapshots}
FileContents == {NoFile, EmptyFile, PartialFile} \cup SnapFiles
\* os.path.getsize: zero for the empty file only (a parquet file of zero
\* rows still has its header and footer)
getsize(c) == IF c = EmptyFile THEN 0 ELSE 1

\* pd.read_parquet of snapshot s: its rows, in file order
read_parquet(c) == [i \in 1..c[2] |-> <<c[2], i>>]

Absent == [exists |-> FALSE]
TableOf(rows, comment) == [exists |-> TRUE, rows |-> rows, comment |-> comment]

\* ------------------------------------------------------------------- state
VARIABLES
    today,        \* the day datetime.now() showed when it was last read
    localFiles,   \* the temporary directory: path -> content
    bucket,       \* bucket data_lake: path -> content of the object
    table,        \* schema bronze: dataset -> table
    runs,         \* processes started so far
    prev,         \* the run before this one, and what the world was at its end
    proc,         \* per process slot: position in main() and its locals
    warehouse,    \* main.py: the rows of the warehouse table, in scan order
    request,      \* main.py: the bounding box posted to /get_restaurants
    response,     \* main.py: what the endpoint answered
    buckets,      \* the buckets of the storage service, with their options
    setup,        \* setup_bucket.py: position in main() and its locals
    date_call     \* one call of a date label function: the clock, the label

pipeVars == <<today, localFiles, bucket, table, runs, prev, proc>>
apiVars == <<warehouse, request, response>>
setupVars == <<buckets, setup>>
dateVars == <<date_call>>
vars == <<today, localFiles, bucket, table, runs, prev, proc,
          warehouse, request, response, buckets, setup, date_call>>

\* locals of a process that has not started.  calls lists the calls made so
\* far; clean says that the environment has made nothing fail so far.
IdleProc ==
    [pc |-> "idle", script |-> None, env_file |-> NoEnvFile, env_vars |-> <<>>,
     stderr |-> <<>>, download |-> None, temp_file |-> NoPath,
     opened |-> NoPath, body |-> NoFile, file_content |-> NoFile,
     storage_date |-> None, listing |-> None, removal |-> None,
     storage_path |-> NoPath, db_date |-> None, parsing |-> None, df |-> <<>>,
     row_count |-> None, table_created |-> FALSE, pending |-> None,
     exit_status |-> None, calls |-> <<>>, clean |-> TRUE]

\* what Start keeps of the process that held the slot, if it exited with
\* status 0, with the world as that process left it
PrevOf(l, files, bkt, tbl) ==
    LET ok == l.pc = "exited" /\ l.exit_status = 0
        kept == IF ok THEN l ELSE IdleProc
    IN  [ok |-> ok, script |-> kept.script, temp_file |-> kept.temp_file,
         storage_date |-> kept.storage_date, db_date |-> kept.db_date,
         body |-> kept.body, localFiles |-> files, bucket |-> bkt, table |-> tbl]

\* no ingestion process has run yet
InitPipeline ==
    /\ today = 0
    /\ localFiles = [f \in Paths |-> NoFile]
    /\ bucket = [f \in Paths |-> NoFile]
    /\ table = [s \in Scripts |-> Absent]
    /\ runs = 0
    /\ prev = PrevOf(IdleProc, [f \in Paths |-> NoFile], [f \in Paths |-> NoFile],
                     [s \in Scripts |-> Absent])
    /\ proc = [p \in Procs |-> IdleProc]

NoRequest == [posted |-> FALSE]
NoResponse == [status |-> "none"]

\* the endpoint has received nothing
InitNoApi ==
    /\ warehouse = <<>>
    /\ request = NoRequest
    /\ response = NoResponse

\* setup_bucket.py: BUCKET_NAME and the options it asks for
BUCKET_NAME == "data_lake"
ALLOWED_MIME_TYPES == <<"text/csv", "application/vnd.apache.parquet">>
FILE_SIZE_LIMIT == "50MB"
Options == [public |-> FALSE, allowed_mime_types |-> ALLOWED_MIME_TYPES,
            file_size_limit |-> FILE_SIZE_LIMIT]
\* a bucket of the storage service
Bucket(name, options) == [name |-> name, options |-> options]

\* locals of a setup process that has not started.  runs counts the setup
\* processes so far; prev_ok says that the one before this exited with
\* status 0 and nothing failing; before is the set of buckets at its start.
IdleSetup ==
    [pc |-> "idle", env_file |-> NoEnvFile, stderr |-> <<>>, calls |-> <<>>,
     created |-> FALSE, updated |-> FALSE, exit_status |-> None,
     clean |-> TRUE, runs |-> 0, prev_ok |-> FALSE, before |-> {}]

\* the bucket is in place and no setup process is running
InitNoSetup ==
    /\ buckets = {Bucket(BUCKET_NAME, Options)}
    /\ setup = IdleSetup

\* no date label function has been called on its own
NoDateCall == [called |-> FALSE]
InitNoDate == date_call = NoDateCall

Init == InitPipeline /\ InitNoApi /\ InitNoSetup /\ InitNoDate

\* ------------------------------------------------------- load_environment
\* `if value is None`: an empty value passes
Missing_none_only(value) == value = None

\* `if not value`: None and the empty string are both missing
Missing(value) == value = None \/ value = ""

\* load_environment(): exit = TRUE is sys.exit(1); stderr is what the error
\* message names (the missing keys, in order); env_vars the mapping returned
load_environment(env_file, required_vars) ==
    IF ~env_file.exists
    THEN [exit |-> TRUE, stderr |-> <<".env file not found">>, env_vars |-> <<>>]
    ELSE LET missing_vars == SelectSeq(required_vars,
                                       LAMBDA k : Missing(env_file.vars[k]))
             found == {required_vars[i] : i \in 1..Len(required_vars)}
                         \ {missing_vars[i] : i \in 1..Len(missing_vars)}
         IN  IF missing_vars # <<>>
             THEN [exit |-> TRUE, stderr |-> missing_vars, env_vars |-> <<>>]
             ELSE [exit |-> FALSE, stderr |-> <<>>,
                   env_vars |-> [k \in found |-> env_file.vars[k]]]

\* ------------------------------------------------------------------- main
\* the process ends with `status`
Exited(l, status) == [l EXCEPT !.pc = "exited", !.exit_status = status]

\* main() is invoked: a new process in slot p.  The slots are
\* interchangeable: a slot is taken only when the slots below it have been.
Start(p) ==
    /\ proc[p].pc \in {"idle", "exited"}
    /\ \A q \in Procs : q < p => proc[q].pc # "idle"
    /\ runs < MaxRuns
    /\ \E s \in Scripts :
          proc' = [proc EXCEPT ![p] = [IdleProc EXCEPT !.pc = "config", !.script = s]]
    /\ prev' = PrevOf(proc[p], localFiles, bucket, table)
    /\ runs' = runs + 1
    /\ UNCHANGED <<today, localFiles, bucket, table, apiVars, setupVars, dateVars>>

\* main: env_vars = load_environment(), on the configuration e it finds
LoadEnv(p) ==
    /\ proc[p].pc = "config"
    /\ \E e \in EnvFiles :
          LET l == [proc[p] EXCEPT !.env_file = e]
              r == load_environment(e, RequiredVars)
          IN  proc' = [proc EXCEPT ![p] =
                  IF r.exit
                  THEN Exited([l EXCEPT !.stderr = r.stderr, !.clean = FALSE], 1)
                  ELSE [l EXCEPT !.env_vars = r.env_vars, !.pc = "download"]]
    /\ UNCHANGED <<today, localFiles, bucket, table, runs, prev, apiVars, setupVars, dateVars>>

\* datetime.now(): the clock never runs backwards
Now == today..MaxDay

\* ---------------------------------------------------------------- download
\* what the HTTP source does to one download: the request fails before the
\* local file is opened (connection error, timeout, non-2xx status); the
\* stream breaks after the file was opened, leaving `left` on disk; or the
\* body arrives whole, zero bytes long or snapshot s
DownloadOutcomes ==
    {[kind |-> "request_error"]}
    \cup [kind : {"stream_error"}, left : {EmptyFile, PartialFile}]
    \cup [kind : {"complete"}, body : {EmptyFile} \cup SnapFiles]

\* download_data without the `file_size == 0` check
download_data_unchecked(files, temp_path, o) ==
    IF o.kind = "request_error"
    THEN [files |-> files, ret |-> NoPath, opened |-> NoPath, body |-> NoFile]
    ELSE IF o.kind = "stream_error"
    THEN [files |-> [files EXCEPT ![temp_path] = o.left], ret |-> NoPath,
          opened |-> temp_path, body |-> NoFile]
    ELSE [files |-> [files EXCEPT ![temp_path] = o.body], ret |-> temp_path,
          opened |-> temp_path, body |-> o.body]

\* download_alimconfiance_data() / download_osm_data(): the directory after
\* the call, the value returned (the path or None), the path opened for
\* writing, the body received
download_data(files, temp_path, o) ==
    IF o.kind = "request_error"
    THEN [files |-> files, ret |-> NoPath, opened |-> NoPath, body |-> NoFile]
    ELSE IF o.kind = "stream_error"
    THEN [files |-> [files EXCEPT ![temp_path] = o.left], ret |-> NoPath,
          opened |-> temp_path, body |-> NoFile]
    ELSE LET written == [files EXCEPT ![temp_path] = o.body]
             file_size == getsize(written[temp_path])
         IN  IF file_size = 0
             THEN [files |-> [written EXCEPT ![temp_path] = NoFile], ret |-> NoPath,
                   opened |-> temp_path, body |-> o.body]
             ELSE [files |-> written, ret |-> temp_path,
                   opened |-> temp_path, body |-> o.body]

\* main going on without a file
main_after_download_unchecked(file) == "client"

\* main: `if not file: sys.exit(1)`, before the try block
main_after_download(file) == IF file = NoPath THEN "exit1" ELSE "client"

\* main: the file = download(); if not file: sys.exit(1)
Download(p) ==
    /\ proc[p].pc = "download"
    /\ \E o \in DownloadOutcomes, now \in Now :
          LET l == proc[p]
              temp_path == <<l.script, DateLabel(l.script, now)>>
              r == download_data(localFiles, temp_path, o)
              l2 == [l EXCEPT !.download = o.kind, !.temp_file = r.ret,
                              !.opened = r.opened, !.body = r.body,
                              !.calls = Append(@, "download"),
                              !.clean = o.kind = "complete" /\ o.body \in SnapFiles]
          IN  /\ today' = now
              /\ localFiles' = r.files
              /\ proc' = [proc EXCEPT ![p] =
                     IF main_after_download(r.ret) = "exit1"
                     THEN Exited(l2, 1)
                     ELSE [l2 EXCEPT !.pc = "client"]]
    /\ UNCHANGED <<bucket, table, runs, prev, apiVars, setupVars, dateVars>>

\* main: supabase = create_client(...), inside the try block
CreateClient(p) ==
    /\ proc[p].pc = "client"
    /\ \E ok \in BOOLEAN :
          proc' = [proc EXCEPT ![p] =
                      IF ok THEN [@ EXCEPT !.pc = "read"]
                      ELSE [@ EXCEPT !.pc = "finally", !.pending = 1,
                                     !.clean = FALSE]]
    /\ UNCHANGED <<today, localFiles, bucket, table, runs, prev, apiVars, setupVars, dateVars>>

\* -------------------------------------------------------- upload_to_storage
\* main going on to the load whatever upload_to_storage returned
main_after_upload_regardless(storage_path) == [pc |-> "parse", pending |-> None]

\* main leaving the try block right after the upload
main_after_upload_skip_load(storage_path) ==
    IF storage_path = NoPath THEN [pc |-> "finally", pending |-> 1]
    ELSE [pc |-> "finally", pending |-> 0]

\* main: `if not storage_path: sys.exit(1)`, inside the try block
main_after_upload(storage_path) ==
    IF storage_path = NoPath THEN [pc |-> "finally", pending |-> 1]
    ELSE [pc |-> "parse", pending |-> None]

\* the return of upload_to_storage to main
UploadReturn(l, storage_path) ==
    LET after == main_after_upload(storage_path)
    IN  [l EXCEPT !.storage_path = storage_path, !.pc = after.pc,
                  !.pending = after.pending]

\* a read placed after the cleanup: a raise of open or read does not stop
\* upload_to_storage from going on to the listing
read_raised_late(l) == [l EXCEPT !.pc = "list"]

\* open(file_path) or f.read() raises: the outer except, `return None`,
\* before any call to the storage service
read_raised(l) == UploadReturn(l, NoPath)

\* upload_to_storage: the date label, then open(file_path).read()
UploadRead(p) ==
    /\ proc[p].pc = "read"
    /\ \E ok \in BOOLEAN, now \in Now :
          LET l == [proc[p] EXCEPT !.storage_date = DateLabel(proc[p].script, now),
                                   !.calls = Append(@, "upload_to_storage"),
                                   !.clean = @ /\ ok]
              readable == /\ ok
                          /\ l.temp_file \in DOMAIN localFiles
                          /\ localFiles[l.temp_file] # NoFile
          IN  /\ today' = now
              /\ proc' = [proc EXCEPT ![p] =
                     IF readable
                     THEN [l EXCEPT !.file_content = localFiles[l.temp_file],
                                    !.pc = "list"]
                     ELSE read_raised(l)]
    /\ UNCHANGED <<localFiles, bucket, table, runs, prev, apiVars, setupVars, dateVars>>

\* storage.list(path=<dataset>): the names under the dataset's prefix
list_names(bkt, s) == {f[2] : f \in {g \in Paths : g[1] = s /\ bkt[g] # NoFile}}

\* name_matches comparing the listed name with the whole storage path
name_matches_path(existing_files, date) ==
    \E name \in existing_files : name = "dataset/" \o date

\* the loop over existing_files: is there a file named <date>.parquet
name_matches(existing_files, date) == date \in existing_files

\* the inner except re-raising: upload_to_storage gives up
cleanup_raised_fatal(l) == UploadReturn(l, NoPath)

\* the inner `except Exception: pass`: a raise of list or remove is
\* swallowed and upload_to_storage goes on to the upload
cleanup_raised(l) == [l EXCEPT !.pc = "upload"]

\* upload_to_storage: existing_files = storage.list(...); a raise is swallowed
UploadList(p) ==
    /\ proc[p].pc = "list"
    /\ \E ok \in BOOLEAN :
          LET l == [proc[p] EXCEPT !.calls = Append(@, "list"),
                                   !.listing = IF ok THEN "ok" ELSE "raised",
                                   !.clean = @ /\ ok]
          IN  proc' = [proc EXCEPT ![p] =
                  IF ~ok THEN cleanup_raised(l)
                  ELSE IF name_matches(list_names(bucket, l.script), l.storage_date)
                  THEN [l EXCEPT !.pc = "remove"]
                  ELSE [l EXCEPT !.pc = "upload"]]
    /\ UNCHANGED <<today, localFiles, bucket, table, runs, prev, apiVars, setupVars, dateVars>>

\* a remove that is given the dataset's prefix and empties it
remove_object_prefix(bkt, storage_path) ==
    [f \in DOMAIN bkt |-> IF f[1] = storage_path[1] THEN NoFile ELSE bkt[f]]

\* a remove that is given the bare file name and so removes nothing
remove_object_by_name(bkt, storage_path) == bkt

\* storage.remove([storage_path]) when it succeeds
remove_object(bkt, storage_path) == [bkt EXCEPT ![storage_path] = NoFile]

\* upload_to_storage: storage.remove([storage_path]); a raise is swallowed
UploadRemove(p) ==
    /\ proc[p].pc = "remove"
    /\ \E ok \in BOOLEAN :
          LET l == proc[p]
              storage_path == <<l.script, l.storage_date>>
          IN  /\ bucket' = IF ok THEN remove_object(bucket, storage_path) ELSE bucket
              /\ proc' = [proc EXCEPT ![p] =
                     LET l2 == [l EXCEPT !.calls = Append(@, "remove"),
                                         !.removal = IF ok THEN "ok" ELSE "raised",
                                         !.clean = @ /\ ok]
                     IN  IF ok THEN [l2 EXCEPT !.pc = "upload"]
                         ELSE cleanup_raised(l2)]
    /\ UNCHANGED <<today, localFiles, table, runs, prev, apiVars, setupVars, dateVars>>

\* storage.upload(path, file) when it succeeds
upload_object(bkt, storage_path, file_content) ==
    [bkt EXCEPT ![storage_path] = file_content]

\* upload_to_storage: storage.upload(...) and the return to main.  The call
\* passes no upsert option, so the storage service refuses a path that
\* already holds an object.
UploadPut(p) ==
    /\ proc[p].pc = "upload"
    /\ \E ok \in BOOLEAN :
          LET l == [proc[p] EXCEPT !.calls = Append(@, "upload"),
                                   !.clean = @ /\ ok]
              storage_path == <<l.script, l.storage_date>>
              done == ok /\ bucket[storage_path] = NoFile
          IN  /\ bucket' = IF done
                           THEN upload_object(bucket, storage_path, l.file_content)
                           ELSE bucket
              /\ proc' = [proc EXCEPT ![p] =
                             UploadReturn(l, IF done THEN storage_path ELSE NoPath)]
    /\ UNCHANGED <<today, localFiles, table, runs, prev, apiVars, setupVars, dateVars>>

\* ---------------------------------------------------- create_database_table
\* main going on to the summary whatever create_database_table returned
main_after_load_ignored(ok) == [pc |-> "finally", pending |-> 0]

\* main: `if not create_database_table(...): sys.exit(1)`, else the summary
main_after_load(ok) ==
    IF ok THEN [pc |-> "finally", pending |-> 0]
    ELSE [pc |-> "finally", pending |-> 1]

\* the return of create_database_table to main
LoadReturn(l, ok) ==
    LET after == main_after_load(ok)
    IN  [l EXCEPT !.table_created = ok, !.pc = after.pc, !.pending = after.pending]

\* a parse placed after the drop: a raise of create_engine or read_parquet
\* does not stop create_database_table from going on to the drop
parse_raised_late(l) == [l EXCEPT !.pc = "drop"]

\* create_engine or pd.read_parquet raises: the except, `return False`,
\* before any statement was sent to the database
parse_raised(l) == LoadReturn(l, FALSE)

\* create_database_table: the date label, create_engine, pd.read_parquet
LoadParse(p) ==
    /\ proc[p].pc = "parse"
    /\ \E ok \in BOOLEAN, now \in Now :
          LET l == [proc[p] EXCEPT !.db_date = DateLabel(proc[p].script, now),
                                   !.calls = Append(@, "create_database_table"),
                                   !.clean = @ /\ ok]
              parsed == /\ ok
                        /\ l.temp_file \in DOMAIN localFiles
                        /\ localFiles[l.temp_file] \in SnapFiles
          IN  /\ today' = now
              /\ proc' = [proc EXCEPT ![p] =
                     IF parsed
                     THEN [l EXCEPT !.df = read_parquet(localFiles[l.temp_file]),
                                    !.parsing = "ok", !.pc = "drop"]
                     ELSE parse_raised([l EXCEPT !.parsing = "raised"])]
    /\ UNCHANGED <<localFiles, bucket, table, runs, prev, apiVars, setupVars, dateVars>>

\* DROP TABLE IF EXISTS bronze.<table> CASCADE, committed
drop_table(tbl) == Absent

\* create_database_table: the drop, in its own transaction
LoadDrop(p) ==
    /\ proc[p].pc = "drop"
    /\ \E ok \in BOOLEAN :
          LET l == [proc[p] EXCEPT !.calls = Append(@, "drop"), !.clean = @ /\ ok]
          IN  /\ table' = IF ok THEN [table EXCEPT ![l.script] = drop_table(@)]
                          ELSE table
              /\ proc' = [proc EXCEPT ![p] =
                             IF ok THEN [l EXCEPT !.pc = "to_sql"]
                             ELSE LoadReturn(l, FALSE)]
    /\ UNCHANGED <<today, localFiles, bucket, runs, prev, apiVars, setupVars, dateVars>>

\* to_sql with if_exists='append': the rows of df after those already there
to_sql_append(tbl, df) ==
    IF tbl.exists THEN TableOf(tbl.rows \o df, None) ELSE TableOf(df, None)

\* to_sql losing the last row of df
to_sql_short(tbl, df) == TableOf(SubSeq(df, 1, Len(df) - 1), None)

\* df.to_sql(..., if_exists='replace') when it succeeds: whatever table was
\* there is replaced by a new one holding the rows of df, without a comment
to_sql(tbl, df) == TableOf(df, None)

\* what a failing to_sql can leave: the table as it was, no table, or a new
\* table holding the first k rows of df
to_sql_failed(tbl, df) ==
    {tbl, Absent} \cup {TableOf(SubSeq(df, 1, k), None) : k \in 0..(Len(df) - 1)}

\* create_database_table: df.to_sql(...)
LoadToSql(p) ==
    /\ proc[p].pc = "to_sql"
    /\ LET l == [proc[p] EXCEPT !.calls = Append(@, "to_sql")] IN
       \/ /\ table' = [table EXCEPT ![l.script] = to_sql(@, l.df)]
          /\ proc' = [proc EXCEPT ![p] = [l EXCEPT !.pc = "comment"]]
       \/ /\ \E left \in to_sql_failed(table[l.script], l.df) :
                table' = [table EXCEPT ![l.script] = left]
          /\ proc' = [proc EXCEPT ![p] = LoadReturn([l EXCEPT !.clean = FALSE], FALSE)]
    /\ UNCHANGED <<today, localFiles, bucket, runs, prev, apiVars, setupVars, dateVars>>

\* COMMENT ON TABLE ... 'Dataset date: <date>', committed
comment_on(tbl, date) == [tbl EXCEPT !.comment = date]

\* SELECT COUNT(*) FROM bronze.<table>
count_rows(tbl) == Len(tbl.rows)

\* create_database_table: the comment and the count in one transaction, then
\* `return True`; both statements fail on a table that does not exist
LoadComment(p) ==
    /\ proc[p].pc = "comment"
    /\ \E ok \in BOOLEAN :
          LET l == [proc[p] EXCEPT !.calls = Append(@, "comment"), !.clean = @ /\ ok]
              done == ok /\ table[l.script].exists
          IN  /\ table' = IF done
                          THEN [table EXCEPT ![l.script] = comment_on(@, l.db_date)]
                          ELSE table
              /\ proc' = [proc EXCEPT ![p] =
                     IF done
                     THEN LoadReturn([l EXCEPT !.row_count = count_rows(table[l.script])],
                                     TRUE)
                     ELSE LoadReturn(l, FALSE)]
    /\ UNCHANGED <<today, localFiles, bucket, runs, prev, apiVars, setupVars, dateVars>>

\* -------------------------------------------------------------------- exit
\* main, finally: if os.path.exists(file): os.remove(file)
finally_cleanup(files, file) ==
    IF file \in DOMAIN files /\ files[file] # NoFile
    THEN [files EXCEPT ![file] = NoFile]
    ELSE files

\* a finally block that ends the process normally, whatever was pending
exit_code_swallowed(pending) == 0

\* the exit status of the process once the finally block is done: 1 after
\* sys.exit(1) or an exception, 0 when the try block ran to its end
exit_code(pending) == pending

\* main: the finally block, then the process exits
Finally(p) ==
    /\ proc[p].pc = "finally"
    /\ LET l == proc[p] IN
       /\ localFiles' = finally_cleanup(localFiles, l.temp_file)
       /\ proc' = [proc EXCEPT ![p] = Exited(l, exit_code(l.pending))]
    /\ UNCHANGED <<today, bucket, table, runs, prev, apiVars, setupVars, dateVars>>

\* --------------------------------------------------------------- behaviours
Step(p) ==
    \/ Start(p)
    \/ LoadEnv(p)
    \/ Download(p)
    \/ CreateClient(p)
    \/ UploadRead(p)
    \/ UploadList(p)
    \/ UploadRemove(p)
    \/ UploadPut(p)
    \/ LoadParse(p)
    \/ LoadDrop(p)
    \/ LoadToSql(p)
    \/ LoadComment(p)
    \/ Finally(p)

\* runs one after the other in slot 1
Next == Step(1)

Spec == Init /\ [][Next]_vars

\* a bucket that earlier runs have filled: any path may hold a snapshot
Archives == [Paths -> {NoFile, Snap(1)}]

\* no process is running; the bucket holds what earlier runs archived
InitArchive ==
    /\ today = 0
    /\ localFiles = [f \in Paths |-> NoFile]
    /\ bucket \in Archives
    /\ table = [s \in Scripts |-> Absent]
    /\ runs = 0
    /\ prev = PrevOf(IdleProc, localFiles, bucket, table)
    /\ proc = [p \in Procs |-> IdleProc]
    /\ InitNoApi /\ InitNoSetup /\ InitNoDate

SpecArchive == InitArchive /\ [][Next]_vars

\* processes started independently (two cron entries, a manual run beside a
\* scheduled one): nothing in the scripts takes a lock, so their steps
\* interleave freely
NextConcurrent == \E p \in Procs : Step(p)

SpecConcurrent == Init /\ [][NextConcurrent]_vars

\* ------------------------------------------------------- main.py, the API
\* A float is counted in half degrees: n stands for n / 2.
Floats == (0 - MaxCoord)..MaxCoord
\* the coordinates of the warehouse rows
RowCoords == 0..MaxCoord
Boxes == [latitude_minimum : Floats, longitude_minimum : Floats,
          latitude_maximum : Floats, longitude_maximum : Floats]

\* the columns of the warehouse table that get_restaurants reads
Latitude == "osm_ffs-meta_geo_point_latitude"
Longitude == "osm_ffs-meta_geo_point_longitude"
History == "controles_sanitaires"
\* columns behind the fields of Restaurant that must hold a value
RequiredColumns ==
    {"osm_ffs-name", "ea-app_libelle_etablissement", "ea-date_inspection",
     "ea-synthese_eval_sanit", "ea-app_code_synthese_eval_sanit",
     "ea-full_address", "nombre_controles_sanitaires"}
\* columns behind the Optional fields of Restaurant
OptionalColumns ==
    {"gmp_pd-rating", "gmp_pd-googleMapsUri", "gmp_pd-userRatingCount",
     "t_ld-web_url", "t_ld-rating", "t_ld-num_reviews"}
ScalarColumns == RequiredColumns \cup OptionalColumns
\* the keys of one entry of the inspection history
HistoryKeys == {"ea-date_inspection", "ea-app_code_synthese_eval_sanit"}

\* SQL NULL, Python None
NULL == <<"NULL">>
\* the value of column c in row i; of key k in entry j of its history
Value(c, i) == <<c, i>>
EntryValue(k, i, j) == <<k, i, j>>

\* a history entry with a value under every key, and a history of h of them
CompleteEntry(i, j) == [k \in HistoryKeys |-> EntryValue(k, i, j)]
CompleteHistory(i, h) == [j \in 1..h |-> CompleteEntry(i, j)]

\* row i of the warehouse with a value in every column; the coordinates are
\* never NULL in a row the query selects (NULL BETWEEN ... is not true)
Row(i, lat, lon, scalars, history) ==
    [c \in ScalarColumns \cup {Latitude, Longitude, History} |->
        IF c = Latitude THEN lat
        ELSE IF c = Longitude THEN lon
        ELSE IF c = History THEN history
        ELSE scalars[c]]
CompleteScalars(i) == [c \in ScalarColumns |-> Value(c, i)]
CompleteRow(i, lat, lon) ==
    Row(i, lat, lon, CompleteScalars(i), CompleteHistory(i, MaxHist))

Abs(n) == IF n < 0 THEN 0 - n ELSE n

\* str(x) of a Python float: the sign, the integer digits, the fraction
\* ('-0.5', '1.0')
py_str(n) ==
    [sign |-> IF n < 0 THEN "-" ELSE "",
     int |-> Abs(n) \div 2,
     frac |-> IF Abs(n) % 2 = 1 THEN "5" ELSE "0"]

\* the value the warehouse reads from a floating point literal of the query
sql_literal(lit) ==
    LET magnitude == 2 * lit.int + (IF lit.frac = "5" THEN 1 ELSE 0)
    IN  IF lit.sign = "-" THEN 0 - magnitude ELSE magnitude

\* BETWEEN SYMMETRIC: the bounds are put in order first
between_symmetric(v, lo, hi) == (lo <= v /\ v <= hi) \/ (hi <= v /\ v <= lo)

\* BETWEEN taken as exclusive of its bounds
between_exclusive(v, lo, hi) == lo < v /\ v < hi

\* SQL: v BETWEEN lo AND hi
between(v, lo, hi) == lo <= v /\ v <= hi

\* the WHERE clause of QUERY, built from the str() of the four bounds
where_clause(row, box) ==
    /\ between(row[Latitude], sql_literal(py_str(box.latitude_minimum)),
                              sql_literal(py_str(box.latitude_maximum)))
    /\ between(row[Longitude], sql_literal(py_str(box.longitude_minimum)),
                               sql_literal(py_str(box.longitude_maximum)))

\* client.query(QUERY).result(): the rows the query selects
query_result(rows, box) == SelectSeq(rows, LAMBDA row : where_clause(row, box))

\* the inner loop: the dictionary built from one history entry
controle_sanitaire_of(e) ==
    [ea_date_inspection |-> e["ea-date_inspection"],
     ea_app_code_synthese_eval_sanit |-> e["ea-app_code_synthese_eval_sanit"]]

\* a dictionary that takes the two ratings from each other's columns
restaurant_of_crossed(row) ==
    [osm_ffs_name |-> row["osm_ffs-name"],
     osm_ffs_meta_geo_point_latitude |-> row[Latitude],
     osm_ffs_meta_geo_point_longitude |-> row[Longitude],
     ea_app_libelle_etablissement |-> row["ea-app_libelle_etablissement"],
     ea_date_inspection |-> row["ea-date_inspection"],
     ea_synthese_eval_sanit |-> row["ea-synthese_eval_sanit"],
     ea_app_code_synthese_eval_sanit |-> row["ea-app_code_synthese_eval_sanit"],
     ea_full_address |-> row["ea-full_address"],
     nombre_controles_sanitaires |-> row["nombre_controles_sanitaires"],
     controles_sanitaires |->
        [j \in 1..Len(row[History]) |-> controle_sanitaire_of(row[History][j])],
     gmp_pd_rating |-> row["t_ld-rating"],
     gmp_pd_googleMapsUri |-> row["gmp_pd-googleMapsUri"],
     gmp_pd_userRatingCount |-> row["gmp_pd-userRatingCount"],
     t_ld_web_url |-> row["t_ld-web_url"],
     t_ld_rating |-> row["gmp_pd-rating"],
     t_ld_num_reviews |-> row["t_ld-num_reviews"]]

\* the dictionary get_restaurants builds from one row
restaurant_of(row) ==
    [osm_ffs_name |-> row["osm_ffs-name"],
     osm_ffs_meta_geo_point_latitude |-> row[Latitude],
     osm_ffs_meta_geo_point_longitude |-> row[Longitude],
     ea_app_libelle_etablissement |-> row["ea-app_libelle_etablissement"],
     ea_date_inspection |-> row["ea-date_inspection"],
     ea_synthese_eval_sanit |-> row["ea-synthese_eval_sanit"],
     ea_app_code_synthese_eval_sanit |-> row["ea-app_code_synthese_eval_sanit"],
     ea_full_address |-> row["ea-full_address"],
     nombre_controles_sanitaires |-> row["nombre_controles_sanitaires"],
     controles_sanitaires |->
        [j \in 1..Len(row[History]) |-> controle_sanitaire_of(row[History][j])],
     gmp_pd_rating |-> row["gmp_pd-rating"],
     gmp_pd_googleMapsUri |-> row["gmp_pd-googleMapsUri"],
     gmp_pd_userRatingCount |-> row["gmp_pd-userRatingCount"],
     t_ld_web_url |-> row["t_ld-web_url"],
     t_ld_rating |-> row["t_ld-rating"],
     t_ld_num_reviews |-> row["t_ld-num_reviews"]]

\* controle_sanitaire[key] raises KeyError in one of the first n rows
key_error(result, n) ==
    \E i \in 1..n : \E j \in 1..Len(result[i][History]) :
        ~(HistoryKeys \subseteq DOMAIN result[i][History][j])

\* the list `restaurants` once the loop has taken the first n rows
restaurants_of(result, n) == [i \in 1..n |-> restaurant_of(result[i])]

\* an exception leaves get_restaurants: there is no return value
raised(exception) == [status |-> "error", exception |-> exception]

\* ControleSanitaire: a date and an int, both required
valid_controle_sanitaire(c) ==
    c.ea_date_inspection # NULL /\ c.ea_app_code_synthese_eval_sanit # NULL

\* Restaurant: every field but the six Optional ones must hold a value (the
\* two coordinates always do)
valid_restaurant(r) ==
    /\ r.osm_ffs_name # NULL
    /\ r.ea_app_libelle_etablissement # NULL
    /\ r.ea_date_inspection # NULL
    /\ r.ea_synthese_eval_sanit # NULL
    /\ r.ea_app_code_synthese_eval_sanit # NULL
    /\ r.ea_full_address # NULL
    /\ r.nombre_controles_sanitaires # NULL
    /\ \A j \in 1..Len(r.controles_sanitaires) :
          valid_controle_sanitaire(r.controles_sanitaires[j])

\* a response model that leaves out the dictionaries it cannot validate
Restaurants_lenient(restaurants) ==
    [status |-> "ok", restaurants |-> SelectSeq(restaurants, valid_restaurant)]

\* Restaurants(restaurants = restaurants): one dictionary that does not
\* validate raises ValidationError for the whole list
Restaurants(restaurants) ==
    IF \A i \in 1..Len(restaurants) : valid_restaurant(restaurants[i])
    THEN [status |-> "ok", restaurants |-> restaurants]
    ELSE raised("ValidationError")

\* what the warehouse client does to one request: it raises when the client
\* is built, when the query is submitted, when the result is awaited, or
\* while the rows are fetched, after `after` rows were handed to the loop;
\* or it serves every row
WarehouseOutcomes ==
    [kind : {"ok", "client", "query", "result"}]
    \cup [kind : {"fetch"}, after : 0..(MaxRows - 1)]

\* a handler that answers with the rows it got before the warehouse raised
warehouse_raised_partial(o, restaurants) ==
    [status |-> "ok", restaurants |-> restaurants]

\* the warehouse client raises: nothing in get_restaurants catches it
warehouse_raised(o, restaurants) == raised("warehouse")

\* get_restaurants on the warehouse `rows`, the warehouse client doing o
get_restaurants(rows, box, o) ==
    IF o.kind \in {"client", "query", "result"}
    THEN warehouse_raised(o, <<>>)
    ELSE LET result == query_result(rows, box)
             n == IF o.kind = "fetch" THEN o.after ELSE Len(result)
         IN  IF key_error(result, n) THEN raised("KeyError")
             ELSE IF o.kind = "fetch"
             THEN warehouse_raised(o, restaurants_of(result, n))
             ELSE Restaurants(restaurants_of(result, n))

\* a request waits at the endpoint; the warehouse holds MaxRows rows, each
\* with a value in every column
InitApi ==
    /\ InitPipeline
    /\ \E coords \in [1..MaxRows -> RowCoords \X RowCoords] :
          warehouse = [i \in 1..MaxRows |->
                          CompleteRow(i, coords[i][1], coords[i][2])]
    /\ \E box \in Boxes : request = [posted |-> TRUE, box |-> box]
    /\ response = NoResponse
    /\ InitNoSetup
    /\ InitNoDate

\* POST /get_restaurants: the handler runs once on the posted box.  The
\* response keeps, beside what the handler gave, what the warehouse did.
GetRestaurants ==
    /\ request.posted
    /\ response = NoResponse
    /\ \E o \in WarehouseOutcomes :
          /\ o.kind = "fetch" => o.after < Len(query_result(warehouse, request.box))
          /\ LET r == get_restaurants(warehouse, request.box, o)
             IN  response' =
                    IF r.status = "ok"
                    THEN [status |-> "ok", restaurants |-> r.restaurants,
                          outcome |-> o]
                    ELSE [status |-> "error", exception |-> r.exception,
                          outcome |-> o]
    /\ UNCHANGED <<warehouse, request, pipeVars, setupVars, dateVars>>

NextApi == GetRestaurants

SpecApi == InitApi /\ [][NextApi]_vars

\* the shapes a warehouse row can have: complete, with a history of any
\* length; NULL in one required column; NULL in every optional column; one
\* history entry with NULL under a key, or lacking the key
RowShapes ==
    [kind : {"complete"}, history : 0..MaxHist]
    \cup [kind : {"null_required"}, column : RequiredColumns]
    \cup [kind : {"null_optional"}]
    \cup [kind : {"null_in_entry", "key_missing"}, entry : 1..MaxHist,
          key : HistoryKeys]

\* row i of the warehouse in the given shape
RowOfShape(i, lat, lon, shape) ==
    CASE shape.kind = "complete" ->
            Row(i, lat, lon, CompleteScalars(i), CompleteHistory(i, shape.history))
      [] shape.kind = "null_required" ->
            Row(i, lat, lon, [CompleteScalars(i) EXCEPT ![shape.column] = NULL],
                CompleteHistory(i, MaxHist))
      [] shape.kind = "null_optional" ->
            Row(i, lat, lon,
                [c \in ScalarColumns |->
                    IF c \in OptionalColumns THEN NULL ELSE Value(c, i)],
                CompleteHistory(i, MaxHist))
      [] shape.kind = "null_in_entry" ->
            Row(i, lat, lon, CompleteScalars(i),
                [CompleteHistory(i, MaxHist) EXCEPT
                    ![shape.entry] = [@ EXCEPT ![shape.key] = NULL]])
      [] shape.kind = "key_missing" ->
            Row(i, lat, lon, CompleteScalars(i),
                [CompleteHistory(i, MaxHist) EXCEPT
                    ![shape.entry] = [q \in HistoryKeys \ {shape.key} |->
                                         EntryValue(q, i, shape.entry)]])

\* row i lies at latitude i - 1 (at most MaxCoord) and longitude 0
RowLatitude(i) == IF i - 1 < MaxCoord THEN i - 1 ELSE MaxCoord

\* boxes from the origin up to a latitude: the first rows, all, or none
RowBoxes ==
    {box \in Boxes : /\ box.latitude_minimum = 0 /\ box.longitude_minimum = 0
                     /\ box.longitude_maximum = 0}

\* a request waits at the endpoint; the warehouse holds MaxRows rows of any
\* shape
InitApiRows ==
    /\ InitPipeline
    /\ \E shapes \in [1..MaxRows -> RowShapes] :
          warehouse = [i \in 1..MaxRows |->
                          RowOfShape(i, RowLatitude(i), 0, shapes[i])]
    /\ \E box \in RowBoxes : request = [posted |-> TRUE, box |-> box]
    /\ response = NoResponse
    /\ InitNoSetup
    /\ InitNoDate

SpecApiRows == InitApiRows /\ [][NextApi]_vars

\* --------------------------------------------------------- setup_bucket.py
\* load_environment of setup_bucket.py: required_vars
SetupRequiredVars == <<"SUPABASE_URL", "SUPABASE_SERVICE_ROLE_KEY">>

\* what the storage service can hold before the script is first run: a
\* data_lake bucket made by hand with other options, a bucket of another
\* name, both, or nothing
OldOptions == [public |-> TRUE, allowed_mime_types |-> <<>>, file_size_limit |-> None]
InitialBuckets == SUBSET {Bucket(BUCKET_NAME, OldOptions), Bucket("other", OldOptions)}

\* no setup process has run yet
InitSetup ==
    /\ InitPipeline
    /\ InitNoApi
    /\ buckets \in InitialBuckets
    /\ setup = IdleSetup
    /\ InitNoDate

\* the setup process ends with `status`
SetupExited(l, status) == [l EXCEPT !.pc = "exited", !.exit_status = status]

\* main() of setup_bucket.py is invoked: a new process
SetupStart ==
    /\ setup.pc \in {"idle", "exited"}
    /\ setup.runs < MaxSetupRuns
    /\ setup' = [IdleSetup EXCEPT
                    !.pc = "config",
                    !.runs = setup.runs + 1,
                    !.prev_ok = /\ setup.pc = "exited" /\ setup.exit_status = 0
                                /\ setup.clean,
                    !.before = buckets]
    /\ UNCHANGED <<buckets, pipeVars, apiVars, dateVars>>

\* main: env_vars = load_environment()
SetupLoadEnv ==
    /\ setup.pc = "config"
    /\ \E e \in EnvFiles :
          LET l == [setup EXCEPT !.env_file = e]
              r == load_environment(e, SetupRequiredVars)
          IN  setup' = IF r.exit
                       THEN SetupExited([l EXCEPT !.stderr = r.stderr,
                                                  !.clean = FALSE], 1)
                       ELSE [l EXCEPT !.pc = "client"]
    /\ UNCHANGED <<buckets, pipeVars, apiVars, dateVars>>

\* main: supabase = create_client(...); an exception is not caught and ends
\* the process with a traceback and status 1
SetupCreateClient ==
    /\ setup.pc = "client"
    /\ \E ok \in BOOLEAN :
          setup' = IF ok THEN [setup EXCEPT !.pc = "list"]
                   ELSE SetupExited([setup EXCEPT !.clean = FALSE], 1)
    /\ UNCHANGED <<buckets, pipeVars, apiVars, dateVars>>

\* existing_bucket_names = [bucket.name for bucket in buckets]
existing_bucket_names(bkts) == {b.name : b \in bkts}

\* a test that never finds the bucket
bucket_exists_never(names) == FALSE

\* `if BUCKET_NAME in existing_bucket_names`
bucket_exists(names) == BUCKET_NAME \in names

\* create_data_lake_bucket: storage.list_buckets() and the branch
SetupListBuckets ==
    /\ setup.pc = "list"
    /\ \E ok \in BOOLEAN :
          LET l == [setup EXCEPT !.calls = Append(@, "list_buckets"),
                                 !.clean = @ /\ ok]
          IN  setup' = IF ~ok THEN SetupExited(l, 1)
                       ELSE IF bucket_exists(existing_bucket_names(buckets))
                       THEN [l EXCEPT !.pc = "update"]
                       ELSE [l EXCEPT !.pc = "create"]
    /\ UNCHANGED <<buckets, pipeVars, apiVars, dateVars>>

\* storage.update_bucket(name, options) when it succeeds
update_bucket(bkts, name, options) ==
    {b \in bkts : b.name # name} \cup {Bucket(name, options)}

\* the inner `except Exception`: a warning is printed and the script goes on
update_raised(l) == [l EXCEPT !.pc = "verify"]

\* create_data_lake_bucket: the update of the existing bucket
SetupUpdateBucket ==
    /\ setup.pc = "update"
    /\ \E ok \in BOOLEAN :
          LET l == [setup EXCEPT !.calls = Append(@, "update_bucket"),
                                 !.clean = @ /\ ok]
              done == ok /\ BUCKET_NAME \in existing_bucket_names(buckets)
          IN  /\ buckets' = IF done THEN update_bucket(buckets, BUCKET_NAME, Options)
                            ELSE buckets
              /\ setup' = IF done THEN [l EXCEPT !.updated = TRUE, !.pc = "verify"]
                          ELSE update_raised(l)
    /\ UNCHANGED <<pipeVars, apiVars, dateVars>>

\* storage.create_bucket(name, options) when it succeeds
create_bucket(bkts, name, options) == bkts \cup {Bucket(name, options)}

\* create_data_lake_bucket: the creation; the service refuses a name that
\* is taken; a raise reaches the outer except, sys.exit(1)
SetupCreateBucket ==
    /\ setup.pc = "create"
    /\ \E ok \in BOOLEAN :
          LET l == [setup EXCEPT !.calls = Append(@, "create_bucket"),
                                 !.clean = @ /\ ok]
              done == ok /\ BUCKET_NAME \notin existing_bucket_names(buckets)
          IN  /\ buckets' = IF done THEN create_bucket(buckets, BUCKET_NAME, Options)
                            ELSE buckets
              /\ setup' = IF done THEN [l EXCEPT !.created = TRUE, !.pc = "verify"]
                          ELSE SetupExited(l, 1)
    /\ UNCHANGED <<pipeVars, apiVars, dateVars>>

\* verify_bucket_configuration: list_buckets again and look for the bucket;
\* then main prints the success message and the process ends with status 0
SetupVerify ==
    /\ setup.pc = "verify"
    /\ \E ok \in BOOLEAN :
          LET l == [setup EXCEPT !.calls = Append(@, "verify"),
                                 !.clean = @ /\ ok]
              found == ok /\ \E b \in buckets : b.name = BUCKET_NAME
          IN  setup' = IF found THEN SetupExited(l, 0) ELSE SetupExited(l, 1)
    /\ UNCHANGED <<buckets, pipeVars, apiVars, dateVars>>

NextSetup ==
    \/ SetupStart
    \/ SetupLoadEnv
    \/ SetupCreateClient
    \/ SetupListBuckets
    \/ SetupUpdateBucket
    \/ SetupCreateBucket
    \/ SetupVerify

SpecSetup == InitSetup /\ [][NextSetup]_vars

\* ------------------------------------------------ the date label functions
\* the days on which a date label function is called
DateDays == 0..MaxDate

\* a script is about to compute its date label; datetime.now() shows `now`
InitDate ==
    /\ InitPipeline
    /\ InitNoApi
    /\ InitNoSetup
    /\ date_call \in [called : {FALSE}, script : Scripts, now : DateDays]

\* get_alimconfiance_date() / get_osm_date(): the label returned
GetDate ==
    /\ ~date_call.called
    /\ date_call' = [called |-> TRUE, script |-> date_call.script,
                     now |-> date_call.now,
                     label |-> DateLabel(date_call.script, date_call.now)]
    /\ UNCHANGED <<pipeVars, apiVars, setupVars>>

NextDate == GetDate

SpecDate == InitDate /\ [][NextDate]_vars

\* ================================================================== claims
\* the date labels a run has used for the file name, the storage path and
\* the table comment
RunDates(l) ==
    ({l.storage_date, l.db_date} \ {None})
        \cup (IF l.temp_file = NoPath THEN {} ELSE {l.temp_file[2]})

\* C1: at process exit the local temporary file the run created does not
\* exist, whatever the outcome of the run.
C1_NoTempFileAtExit ==
    \A p \in Procs :
        (proc[p].pc = "exited" /\ proc[p].opened # NoPath)
            => localFiles[proc[p].opened] = NoFile

\* C2: a run that follows a successful run of the same script, for the same
\* logical date and the same source content, nothing failing, succeeds and
\* leaves the world as the first run left it: the object at
\* <dataset>/<date>.parquet holds the source file and the bronze table holds
\* exactly the rows of the source file.
C2_Idempotent ==
    \A p \in Procs :
        LET l == proc[p] IN
        (/\ l.pc = "exited" /\ l.clean
         /\ prev.ok /\ prev.script = l.script /\ prev.body = l.body
         /\ \E d \in Dates : RunDates(l) = {d} /\ RunDates(prev) = {d})
        => /\ l.exit_status = 0
           /\ bucket = prev.bucket /\ table = prev.table
           /\ localFiles = prev.localFiles
           /\ bucket[<<l.script, l.storage_date>>] = l.body
           /\ table[l.script].exists
           /\ table[l.script].rows = read_parquet(l.body)
           /\ count_rows(table[l.script]) = l.body[2]

C2_Witness ==
    \E p \in Procs :
        LET l == proc[p] IN
        /\ l.pc = "exited" /\ l.clean /\ l.body = Snap(1)
        /\ prev.ok /\ prev.script = l.script /\ prev.body = l.body
        /\ \E d \in Dates : RunDates(l) = {d} /\ RunDates(prev) = {d}

\* C3: a download of zero bytes is removed and no path is returned; the run
\* ends there, before upload_to_storage and create_database_table, and no
\* zero-byte file is ever read by the publisher or stored in the bucket.
C3_ZeroByteRejected ==
    /\ \A p \in Procs :
          LET l == proc[p] IN
          /\ l.body = EmptyFile =>
                /\ l.temp_file = NoPath
                /\ localFiles[l.opened] = NoFile
                /\ l.pc = "exited" /\ l.exit_status = 1
                /\ l.calls = <<"download">>
          /\ l.file_content # EmptyFile
          /\ l.pc \in {"drop", "to_sql", "comment"}
                => localFiles[l.temp_file] # EmptyFile
    /\ \A f \in Paths : bucket[f] # EmptyFile

C3_Witness ==
    \E p \in Procs : proc[p].body = EmptyFile /\ proc[p].pc = "exited"

\* C4: once create_database_table has returned True, the bronze table holds
\* exactly the rows parsed from the snapshot of this run, whatever it held
\* before, and the count query gives the number of rows parsed.
C4_TableReplaced ==
    \A p \in Procs :
        LET l == proc[p] IN
        l.table_created =>
            /\ l.df = read_parquet(l.body)
            /\ table[l.script].exists
            /\ table[l.script].rows = l.df
            /\ l.row_count = Len(l.df)

C4_Witness ==
    \E p \in Procs :
        LET l == proc[p] IN
        /\ l.pc = "exited" /\ l.table_created
        /\ prev.table[l.script].exists
        /\ prev.table[l.script].rows # l.df

\* the bounding box predicate on the values of the request
InBox(row, box) ==
    /\ box.latitude_minimum <= row[Latitude]
    /\ row[Latitude] <= box.latitude_maximum
    /\ box.longitude_minimum <= row[Longitude]
    /\ row[Longitude] <= box.longitude_maximum

\* the warehouse rows that appear in the response
Returned(i) ==
    \E j \in 1..Len(response.restaurants) :
        response.restaurants[j] = restaurant_of(warehouse[i])

\* C5: a warehouse row is in the response of /get_restaurants if and only if
\* its latitude and longitude lie in the closed intervals of the bounding box.
C5_BoundingBox ==
    response.status = "ok" =>
        \A i \in 1..Len(warehouse) : Returned(i) <=> InBox(warehouse[i], request.box)

\* a row on the edge of the box is returned, another row is left out
C5_Witness ==
    /\ response.status = "ok"
    /\ \E i, k \in 1..Len(warehouse) :
          /\ Returned(i) /\ ~Returned(k)
          /\ warehouse[i][Latitude] = request.box.latitude_maximum
          /\ warehouse[i][Longitude] = request.box.longitude_minimum

\* the state of the orchestrator's state machine a process is in
Phase(l) ==
    CASE l.pc = "idle" -> "NotStarted"
      [] l.pc = "config" -> "Configuring"
      [] l.pc = "download" -> "Downloading"
      [] l.pc \in {"client", "read", "list", "remove", "upload"} -> "Publishing"
      [] l.pc \in {"parse", "drop", "to_sql", "comment"} -> "Loading"
      [] l.pc = "finally" -> IF l.pending = 0 THEN "Done" ELSE "Failed"
      [] l.pc = "exited" -> IF l.exit_status = 0 THEN "Done" ELSE "Failed"

PhaseArrows ==
    {<<"Configuring", "Downloading">>, <<"Downloading", "Publishing">>,
     <<"Publishing", "Loading">>, <<"Loading", "Done">>}
    \cup {<<a, "Failed">> : a \in {"Configuring", "Downloading", "Publishing", "Loading"}}

\* how often the call c was made
Calls(l, c) == Cardinality({i \in 1..Len(l.calls) : l.calls[i] = c})
\* the call a was made, and before any call b
Before(l, a, b) ==
    \E i \in 1..Len(l.calls) :
        l.calls[i] = a /\ \A j \in 1..i : l.calls[j] # b

\* C6: within a run the orchestrator stays in its state or follows one arrow
\* of Configuring -> Downloading -> Publishing -> Loading -> Done, or goes
\* from a non-terminal state to Failed; the fetcher, the publisher and the
\* loader are each called at most once; only a new process leaves Done or
\* Failed.
C6_PhaseOrder ==
    [][\A p \in Procs :
          LET a == Phase(proc[p])
              b == Phase(proc'[p])
          IN  /\ IF runs' # runs /\ proc'[p] # proc[p]
                 THEN a \in {"NotStarted", "Done", "Failed"} /\ b = "Configuring"
                 ELSE a = b \/ <<a, b>> \in PhaseArrows
              /\ \A c \in {"download", "upload_to_storage", "create_database_table"} :
                    Calls(proc'[p], c) <= 1]_vars

C6_Witness ==
    \E p \in Procs :
        /\ Phase(proc[p]) = "Done" /\ proc[p].pc = "exited"
        /\ Before(proc[p], "download", "upload_to_storage")
        /\ Before(proc[p], "upload_to_storage", "create_database_table")

\* every required key has a value in the configuration the process found
EnvComplete(e) ==
    e.exists /\ \A k \in RequiredKeys : e.vars[k] # None /\ e.vars[k] # ""

\* C7: the process exits with status 0 if and only if the configuration was
\* complete, the download gave a non-empty file, upload_to_storage returned a
\* path and create_database_table returned True; otherwise with status 1.
C7_ExitStatus ==
    \A p \in Procs :
        LET l == proc[p] IN
        l.pc = "exited" =>
            /\ l.exit_status \in {0, 1}
            /\ l.exit_status = 0 <=>
                  /\ EnvComplete(l.env_file)
                  /\ l.download = "complete" /\ l.body \in SnapFiles
                  /\ l.storage_path # NoPath
                  /\ l.table_created

\* a run that failed in the load phase alone
C7_Witness ==
    \E p \in Procs :
        LET l == proc[p] IN
        /\ l.pc = "exited" /\ l.exit_status = 1
        /\ l.storage_path # NoPath /\ ~l.table_created

\* C8: when the download raises (the request fails, or the stream breaks) the
\* fetcher returns no path, the process exits with status 1 without another
\* call, and the bucket and the tables are as they were when the run began.
C8_UnreachableSource ==
    \A p \in Procs :
        LET l == proc[p] IN
        l.download \in {"request_error", "stream_error"} =>
            /\ l.temp_file = NoPath
            /\ l.pc = "exited" /\ l.exit_status = 1
            /\ l.calls = <<"download">>
            /\ bucket = prev.bucket /\ table = prev.table

C8_Witness ==
    \E p \in Procs :
        /\ proc[p].download = "request_error" /\ proc[p].pc = "exited"
        /\ prev.ok

\* C9: when the listing succeeds and the bucket holds an object at the target
\* path, upload_to_storage calls remove; once the removal has succeeded the
\* path is empty until the upload, and after a successful upload the path
\* holds one object, the file fetched in this run.
C9_ReplaceExisting ==
    \A p \in Procs :
        LET l == proc[p]
            path == <<l.script, l.storage_date>>
        IN  (l.listing = "ok" /\ prev.bucket[path] # NoFile) =>
                /\ l.pc = "remove" \/ Calls(l, "remove") = 1
                /\ (l.removal = "ok" /\ l.pc = "upload") => bucket[path] = NoFile
                /\ (l.removal = "ok" /\ l.storage_path # NoPath) =>
                      /\ Before(l, "remove", "upload")
                      /\ l.storage_path = path
                      /\ bucket[path] = l.body
                      /\ Cardinality({f \in Paths : f = path /\ bucket[f] # NoFile}) = 1

\* an object with other content was replaced
C9_Witness ==
    \E p \in Procs :
        LET l == proc[p]
            path == <<l.script, l.storage_date>>
        IN  /\ l.removal = "ok" /\ l.storage_path # NoPath
            /\ prev.bucket[path] \notin {NoFile, l.body}
            /\ bucket[path] = l.body

\* the keys an error message names
Named(l) == {l.stderr[i] : i \in 1..Len(l.stderr)}

\* C10: past load_environment, either the configuration was complete and the
\* mapping returned holds every required key with its non-empty value, or
\* the process has exited with status 1, having named every missing key
\* (when there is a .env file) and made no download, storage or database
\* call: files, bucket and tables are as they were when the run began.
C10_LoadEnvironment ==
    \A p \in Procs :
        LET l == proc[p] IN
        l.pc \notin {"idle", "config"} =>
            IF EnvComplete(l.env_file)
            THEN /\ DOMAIN l.env_vars = RequiredKeys
                 /\ \A k \in RequiredKeys :
                       /\ l.env_vars[k] = l.env_file.vars[k]
                       /\ l.env_vars[k] # "" /\ l.env_vars[k] # None
            ELSE /\ l.pc = "exited" /\ l.exit_status = 1
                 /\ l.env_file.exists =>
                       Named(l) = {k \in RequiredKeys : l.env_file.vars[k] \in {None, ""}}
                 /\ l.calls = <<>>
                 /\ localFiles = prev.localFiles
                 /\ bucket = prev.bucket /\ table = prev.table

\* two keys are missing, one unset and one empty, after a successful run
C10_Witness ==
    \E p \in Procs :
        LET l == proc[p] IN
        /\ l.pc = "exited" /\ l.env_file.exists /\ Len(l.stderr) = 2
        /\ \E k \in RequiredKeys : l.env_file.vars[k] = ""
        /\ \E k \in RequiredKeys : l.env_file.vars[k] = None
        /\ prev.ok

\* C11: when list or remove raises, upload_to_storage goes on to the upload;
\* once the file has been read, upload_to_storage returns no path only after
\* the upload call was made and failed.
C11_BestEffortCleanup ==
    \A p \in Procs :
        LET l == proc[p] IN
        /\ (l.listing = "raised" \/ l.removal = "raised") =>
              l.pc = "upload" \/ Calls(l, "upload") = 1
        /\ (/\ l.file_content # NoFile
            /\ l.pc \notin {"list", "remove", "upload"}
            /\ l.storage_path = NoPath) => Calls(l, "upload") = 1

\* the listing raised, or the removal raised, and the upload went through
C11_Witness ==
    /\ \E p \in Procs :
          proc[p].listing = "raised" /\ proc[p].storage_path # NoPath

\* C12: when upload_to_storage returned a path and create_database_table
\* then returned False, the run ends with status 1 and the bucket still
\* holds, at the path returned, the file uploaded in this run.
C12_NoRollback ==
    \A p \in Procs :
        LET l == proc[p] IN
        (/\ l.storage_path # NoPath /\ ~l.table_created
         /\ l.pc \in {"finally", "exited"}) =>
            /\ l.pc = "exited" => l.exit_status = 1
            /\ l.pc = "finally" => l.pending = 1
            /\ bucket[l.storage_path] = l.file_content
            /\ l.file_content = l.body

\* the load failed in a run that put a new object into the bucket
C12_Witness ==
    \E p \in Procs :
        LET l == proc[p] IN
        /\ l.pc = "exited" /\ l.storage_path # NoPath /\ ~l.table_created
        /\ Calls(l, "to_sql") = 1
        /\ prev.bucket[l.storage_path] = NoFile
        /\ bucket[l.storage_path] = l.body

\* the to_sql call of the run has succeeded
ToSqlDone(l) == l.pc = "comment" \/ Calls(l, "comment") = 1

\* two runs of the same script side by side, both past their to_sql
BothLoaded(p, q) ==
    /\ p # q /\ proc[p].script = proc[q].script
    /\ ToSqlDone(proc[p]) /\ ToSqlDone(proc[q])

\* C13: for concurrent runs of one script, in every interleaving of their
\* steps: a to_sql that succeeds leaves the table holding exactly the rows
\* that run parsed; once both runs are past their to_sql the table exists,
\* holds the rows of one of the two runs alone, and no later step of either
\* run changes its rows.  So the final content is that of the to_sql
\* executed last.
C13_LastLoaderWins ==
    [][\A p \in Procs :
          /\ (proc[p].pc = "to_sql" /\ proc'[p].pc = "comment") =>
                /\ table'[proc[p].script].exists
                /\ table'[proc[p].script].rows = proc[p].df
          /\ \A q \in Procs :
                /\ BothLoaded(p, q)' =>
                      /\ table'[proc'[p].script].exists
                      /\ table'[proc'[p].script].rows \in {proc'[p].df, proc'[q].df}
                /\ BothLoaded(p, q) =>
                      /\ table'[proc[p].script].exists
                      /\ table'[proc[p].script].rows = table[proc[p].script].rows]_vars

\* two runs with different snapshots have raced: run p lost its table to the
\* drop of run q before its comment, and the table holds the rows of run q
C13_Witness ==
    \E p, q \in Procs :
        /\ BothLoaded(p, q)
        /\ proc[p].pc = "exited" /\ proc[q].pc = "exited"
        /\ proc[p].df # proc[q].df
        /\ proc[p].clean /\ ~proc[p].table_created
        /\ table[proc[q].script].rows = proc[q].df

\* the run holds a downloaded file that it has not yet cleaned up
HoldsFile(l) ==
    /\ l.temp_file # NoPath
    /\ l.pc \in {"client", "read", "list", "remove", "upload",
                 "parse", "drop", "to_sql", "comment", "finally"}

\* C14: from a run's successful download to its own cleanup, the file at its
\* temporary path is present and is the body that run downloaded: no other
\* run has written, truncated or removed it.
C14_TempFileOwned ==
    \A p \in Procs :
        HoldsFile(proc[p]) => localFiles[proc[p].temp_file] = proc[p].body

\* C15: create_database_table returns True only when the COUNT(*) it read
\* from the table equals the number of rows it parsed from the file.
C15_CountConfirmsLoad ==
    \A p \in Procs :
        proc[p].table_created => proc[p].row_count = Len(proc[p].df)

\* what a load that failed after its drop leaves: no table, or a table that
\* never got its comment
LeftByFailedLoad(tbl) == ~tbl.exists \/ tbl.comment = None

\* the rows of a table, as a set
RowsOf(tbl) == IF tbl.exists THEN {tbl.rows[i] : i \in 1..Len(tbl.rows)} ELSE {}

\* C16: when the run before failed and left the table missing or without
\* its comment (partially loaded), a run whose create_database_table returns
\* True leaves the table with exactly the rows of its own snapshot, none of
\* the rows the failed load wrote among them unless the snapshot has them.
C16_RerunReplaces ==
    \A p \in Procs :
        LET l == proc[p] IN
        (/\ l.table_created /\ runs > 1 /\ ~prev.ok
         /\ LeftByFailedLoad(prev.table[l.script])) =>
            /\ table[l.script].exists
            /\ table[l.script].rows = read_parquet(l.body)
            /\ RowsOf(table[l.script]) \cap RowsOf(prev.table[l.script])
                  \subseteq RowsOf(TableOf(read_parquet(l.body), None))

\* the failed load left one row of a snapshot of two; the next run loaded
\* another snapshot and that row is gone
C16_Witness ==
    \E p \in Procs :
        LET l == proc[p] IN
        /\ l.pc = "exited" /\ l.table_created /\ runs > 1 /\ ~prev.ok
        /\ prev.table[l.script].exists
        /\ prev.table[l.script].comment = None
        /\ Len(prev.table[l.script].rows) = 1
        /\ RowsOf(prev.table[l.script]) \cap RowsOf(table[l.script]) = {}
        /\ Len(table[l.script].rows) = 1

\* C17, as amended: create_database_table is called only after
\* upload_to_storage has returned, and only when it returned a path; a run
\* whose upload failed ends without a load, the tables as they were.  When
\* the loader is called, what it loads is the local file of the run.
C17_StorageThenDatabase ==
    \A p \in Procs :
        LET l == proc[p] IN
        /\ Calls(l, "create_database_table") = 1 =>
              /\ Before(l, "upload_to_storage", "create_database_table")
              /\ Calls(l, "upload") = 1
              /\ l.storage_path # NoPath
        /\ (l.pc \in {"finally", "exited"} /\ l.storage_path = NoPath) =>
              /\ Calls(l, "create_database_table") = 0
              /\ table = prev.table
        /\ l.pc \in {"drop", "to_sql", "comment"} => l.df = read_parquet(l.body)

\* the file was there and was read, the upload failed, no load took place
C17_Witness ==
    \E p \in Procs :
        LET l == proc[p] IN
        /\ l.pc = "exited" /\ l.file_content \in SnapFiles
        /\ Calls(l, "upload") = 1 /\ l.storage_path = NoPath
        /\ Calls(l, "create_database_table") = 0

\* C17, as stated: the publisher is called before the loader, and whether
\* the table is loaded does not depend on the outcome of the upload: a run
\* that had its local file and read it for the upload goes on to call
\* create_database_table.
C17_LoadIndependentOfUpload ==
    \A p \in Procs :
        LET l == proc[p] IN
        /\ Calls(l, "create_database_table") = 1 =>
              Before(l, "upload_to_storage", "create_database_table")
        /\ (l.pc \in {"finally", "exited"} /\ l.file_content \in SnapFiles) =>
              Calls(l, "create_database_table") = 1

\* C18: whenever the fetcher has returned None, no file exists at the path
\* it opened for writing: partial downloads are removed on failure.
C18_NoFileAfterFailedDownload ==
    \A p \in Procs :
        LET l == proc[p] IN
        (l.download # None /\ l.temp_file = NoPath /\ l.opened # NoPath) =>
            localFiles[l.opened] = NoFile

\* C19: setup_bucket.py exits with status 0 only if, in that run, the bucket
\* was created or its options were updated; a create_bucket or update_bucket
\* call that fails makes it exit with status 1.
C19_SetupExitStatus ==
    (setup.pc = "exited" /\ setup.exit_status = 0) =>
        setup.created \/ setup.updated

\* C20: a second run of setup_bucket.py after a run in which nothing failed,
\* itself with nothing failing, exits 0, takes the update path without a
\* create_bucket call and leaves the buckets as the first run left them:
\* one bucket named data_lake, with the options of the script.  A run in
\* which nothing fails creates the bucket when it is absent.
C20_SetupIdempotent ==
    /\ (setup.pc = "exited" /\ setup.clean /\ setup.prev_ok) =>
          /\ setup.exit_status = 0
          /\ Calls(setup, "update_bucket") = 1
          /\ Calls(setup, "create_bucket") = 0
          /\ buckets = setup.before
          /\ {b \in buckets : b.name = BUCKET_NAME} = {Bucket(BUCKET_NAME, Options)}
    /\ (/\ setup.pc = "exited" /\ setup.clean
        /\ BUCKET_NAME \notin existing_bucket_names(setup.before)) =>
          /\ setup.exit_status = 0 /\ setup.created
          /\ buckets = setup.before \cup {Bucket(BUCKET_NAME, Options)}

\* the first run created the bucket beside one of another name, the second
\* run updated it
C20_Witness ==
    /\ setup.pc = "exited" /\ setup.clean /\ setup.prev_ok
    /\ setup.updated
    /\ Cardinality(buckets) = 2

\* C22: get_osm_date returns the label of the most recent Monday that is not
\* after today: today when today is a Monday, otherwise the Monday 1 to 6
\* days earlier; never a day in the future, never one more than 6 days old.
C22_MostRecentMonday ==
    (date_call.called /\ date_call.script = "osm") =>
        \E d \in (date_call.now - 6)..date_call.now :
            /\ weekday(d) = 0
            /\ date_call.label = strftime(d)
            /\ weekday(date_call.now) = 0 <=> d = date_call.now
            /\ \A e \in (d + 1)..date_call.now : weekday(e) # 0

\* called on a Sunday: the label is that of the Monday six days before
C22_Witness ==
    /\ date_call.called /\ date_call.script = "osm"
    /\ weekday(date_call.now) = 6
    /\ date_call.label = strftime(date_call.now - 6)
    /\ date_call.now > 6

\* C25: within one run the date label of the local file name, of the storage
\* path and of the table comment is one and the same value, also when the
\* calendar date (for OSM, the Monday) changes between the phases.
C25_OneDateLabel ==
    \A p \in Procs : Cardinality(RunDates(proc[p])) <= 1

\* C26: upload_to_storage reads the local file before it touches the bucket:
\* when the file cannot be read it returns no path without a list, remove or
\* upload call, the bucket is as it was when the run began (an object at the
\* target path is still there), and the run fails.
C26_ReadBeforeBucket ==
    \A p \in Procs :
        LET l == proc[p] IN
        (Calls(l, "upload_to_storage") = 1 /\ l.file_content = NoFile) =>
            /\ l.storage_path = NoPath
            /\ Calls(l, "list") = 0 /\ Calls(l, "remove") = 0
            /\ Calls(l, "upload") = 0
            /\ bucket = prev.bucket
            /\ l.pc \in {"finally", "exited"}
            /\ l.pc = "finally" => l.pending = 1
            /\ l.pc = "exited" => l.exit_status = 1

\* the read failed in a run whose target path held an object
C26_Witness ==
    \E p \in Procs :
        LET l == proc[p] IN
        /\ l.pc = "exited" /\ Calls(l, "upload_to_storage") = 1
        /\ l.file_content = NoFile
        /\ bucket[<<l.script, l.storage_date>>] \in SnapFiles

\* C27: when the removal before the upload has succeeded and the upload then
\* fails, upload_to_storage returns no path, the target path holds no
\* object (the object archived before is not put back) and the run exits
\* with status 1.
C27_NoRestoreAfterFailedUpload ==
    \A p \in Procs :
        LET l == proc[p]
            path == <<l.script, l.storage_date>>
        IN  (l.removal = "ok" /\ Calls(l, "upload") = 1 /\ l.storage_path = NoPath) =>
                /\ bucket[path] = NoFile
                /\ prev.bucket[path] # NoFile
                /\ l.pc \in {"finally", "exited"}
                /\ l.pc = "finally" => l.pending = 1
                /\ l.pc = "exited" => l.exit_status = 1
                /\ Calls(l, "create_database_table") = 0

\* the object of an earlier successful run is gone after the failed upload
C27_Witness ==
    \E p \in Procs :
        LET l == proc[p]
            path == <<l.script, l.storage_date>>
        IN  /\ l.pc = "exited" /\ l.removal = "ok"
            /\ Calls(l, "upload") = 1 /\ l.storage_path = NoPath
            /\ prev.ok /\ prev.bucket[path] \in SnapFiles
            /\ bucket[path] = NoFile

\* C28: create_database_table parses the snapshot before it drops anything:
\* when create_engine or read_parquet fails, it returns False without a
\* drop or to_sql, and the bronze tables (rows and comment) are as they
\* were when the run began.
C28_ParseBeforeDrop ==
    \A p \in Procs :
        LET l == proc[p] IN
        /\ l.parsing = "raised" =>
              /\ ~l.table_created
              /\ Calls(l, "drop") = 0 /\ Calls(l, "to_sql") = 0
              /\ table = prev.table
              /\ l.pc \in {"finally", "exited"}
              /\ l.pc = "finally" => l.pending = 1
              /\ l.pc = "exited" => l.exit_status = 1
        /\ Calls(l, "drop") = 1 => l.parsing = "ok" /\ l.df = read_parquet(l.body)

\* the parse failed in a run that found a loaded table with its comment
C28_Witness ==
    \E p \in Procs :
        LET l == proc[p] IN
        /\ l.pc = "exited" /\ l.parsing = "raised"
        /\ prev.ok /\ table[l.script].exists
        /\ table[l.script].comment # None
        /\ Len(table[l.script].rows) = MaxSnap

\* the paths at which the bucket differs between two states
Changed(before, after) == {f \in Paths : before[f] # after[f]}

\* C29: a step of upload_to_storage changes the bucket at no path but the
\* target <dataset>/<date>.parquet of the run taking the step; remove is
\* called at most once per call of upload_to_storage and removes one object
\* at most; objects stored for other dates or under the other dataset's
\* prefix are unchanged by any run.
C29_OnlyTargetPath ==
    [][/\ \A p \in Procs :
             LET l == proc[p]
                 path == <<l.script, l.storage_date>>
             IN  /\ proc'[p] # l => Changed(bucket, bucket') \subseteq {path}
                 /\ Calls(proc'[p], "remove") <= Calls(proc'[p], "upload_to_storage")
                 /\ Calls(proc'[p], "remove") > Calls(l, "remove") =>
                       Cardinality({f \in Paths : bucket[f] # NoFile /\ bucket'[f] = NoFile}) <= 1
       /\ Changed(bucket, bucket') # {} => \E p \in Procs : proc'[p] # proc[p]]_vars

\* a run has removed and replaced its target object while the bucket held
\* an object for another date under the same prefix, which is still there
C29_Witness ==
    \E p \in Procs :
        LET l == proc[p]
            path == <<l.script, l.storage_date>>
        IN  /\ l.pc = "exited" /\ l.removal = "ok" /\ l.storage_path = path
            /\ \E f \in Paths :
                  /\ f # path /\ f[1] = l.script
                  /\ prev.bucket[f] \in SnapFiles /\ bucket[f] = prev.bucket[f]

\* the rows of the warehouse inside the box, in scan order
Matching == SelectSeq(warehouse, LAMBDA row : InBox(row, request.box))

\* C21: when the warehouse client raises while the client is built, the
\* query is submitted or the rows are fetched, get_restaurants gives no
\* response body, neither the restaurants built so far nor an error
\* envelope: the exception leaves the handler.
C21_WarehouseErrorPropagates ==
    (response # NoResponse /\ response.outcome.kind # "ok") =>
        /\ response.status = "error"
        /\ response.exception \in {"warehouse", "KeyError"}
        /\ DOMAIN response = {"status", "exception", "outcome"}

\* the fetch broke after the loop had built a restaurant from the first of
\* two matching rows
C21_Witness ==
    /\ response.status = "error"
    /\ response.outcome = [kind |-> "fetch", after |-> 1]
    /\ response.exception = "warehouse"
    /\ Len(Matching) = 2

\* the warehouse column a field of the response is named after
ColumnNamed(field) ==
    CASE field = "osm_ffs_name" -> "osm_ffs-name"
      [] field = "osm_ffs_meta_geo_point_latitude" -> "osm_ffs-meta_geo_point_latitude"
      [] field = "osm_ffs_meta_geo_point_longitude" -> "osm_ffs-meta_geo_point_longitude"
      [] field = "ea_app_libelle_etablissement" -> "ea-app_libelle_etablissement"
      [] field = "ea_date_inspection" -> "ea-date_inspection"
      [] field = "ea_synthese_eval_sanit" -> "ea-synthese_eval_sanit"
      [] field = "ea_app_code_synthese_eval_sanit" -> "ea-app_code_synthese_eval_sanit"
      [] field = "ea_full_address" -> "ea-full_address"
      [] field = "nombre_controles_sanitaires" -> "nombre_controles_sanitaires"
      [] field = "controles_sanitaires" -> "controles_sanitaires"
      [] field = "gmp_pd_rating" -> "gmp_pd-rating"
      [] field = "gmp_pd_googleMapsUri" -> "gmp_pd-googleMapsUri"
      [] field = "gmp_pd_userRatingCount" -> "gmp_pd-userRatingCount"
      [] field = "t_ld_web_url" -> "t_ld-web_url"
      [] field = "t_ld_rating" -> "t_ld-rating"
      [] field = "t_ld_num_reviews" -> "t_ld-num_reviews"

\* C23: the response holds one restaurant per row the query returned, in
\* the same order; each restaurant's controles_sanitaires has one entry per
\* entry of the row's inspection history, in the same order, holding its
\* date and rating code; every other field holds the value of the column
\* it is named after.
C23_RowsToRestaurants ==
    response.status = "ok" =>
        /\ Len(response.restaurants) = Len(Matching)
        /\ \A i \in 1..Len(Matching) :
              LET r == response.restaurants[i]
                  row == Matching[i]
              IN  /\ DOMAIN r = {f \in DOMAIN r : ColumnNamed(f) \in DOMAIN row}
                  /\ Cardinality(DOMAIN r) = Cardinality(DOMAIN row)
                  /\ \A f \in DOMAIN r \ {"controles_sanitaires"} :
                        r[f] = row[ColumnNamed(f)]
                  /\ Len(r.controles_sanitaires) = Len(row[History])
                  /\ \A j \in 1..Len(row[History]) :
                        LET c == r.controles_sanitaires[j]
                        IN  /\ DOMAIN c = {"ea_date_inspection",
                                           "ea_app_code_synthese_eval_sanit"}
                            /\ \A f \in DOMAIN c : c[f] = row[History][j][ColumnNamed(f)]

\* two rows came back: one with a history of two entries, one with no
\* third-party ratings
C23_Witness ==
    /\ response.status = "ok"
    /\ Len(response.restaurants) = 2
    /\ Len(response.restaurants[1].controles_sanitaires) = 2
    /\ response.restaurants[2].gmp_pd_rating = NULL
    /\ response.restaurants[2].t_ld_rating = NULL

\* a bound of the box is above its opposite bound
Inverted(box) ==
    \/ box.latitude_minimum > box.latitude_maximum
    \/ box.longitude_minimum > box.longitude_maximum

\* C24: get_restaurants does not check the order of the bounds: a box with
\* latitude_minimum > latitude_maximum or longitude_minimum >
\* longitude_maximum is queried like any other and, the warehouse
\* answering, gives an empty list of restaurants, not an error.
C24_InvertedBoxIsEmpty ==
    (/\ response # NoResponse /\ response.outcome.kind = "ok"
     /\ Inverted(request.box)) =>
        /\ response.status = "ok"
        /\ response.restaurants = <<>>

\* the box is inverted in latitude and a row lies between the two bounds
C24_Witness ==
    /\ response.status = "ok"
    /\ request.box.latitude_minimum > request.box.latitude_maximum
    /\ \E i \in 1..Len(warehouse) :
          /\ request.box.latitude_maximum <= warehouse[i][Latitude]
          /\ warehouse[i][Latitude] <= request.box.latitude_minimum
          /\ request.box.longitude_minimum <= warehouse[i][Longitude]
          /\ warehouse[i][Longitude] <= request.box.longitude_maximum

\* the row can be made a Restaurant: a value in every required column, and
\* a date and a rating code in every entry of its history
Convertible(row) ==
    /\ \A c \in RequiredColumns : row[c] # NULL
    /\ \A j \in 1..Len(row[History]) :
          \A k \in HistoryKeys :
              k \in DOMAIN row[History][j] /\ row[History][j][k] # NULL

\* C30: get_restaurants is all-or-nothing over the matching rows: when one
\* matching row cannot be made a Restaurant (NULL in a required column, a
\* history entry without a field), the request fails and none of the rows
\* that could be converted is returned; when all can, all are returned.
C30_AllOrNothing ==
    (response # NoResponse /\ response.outcome.kind = "ok") =>
        IF \A i \in 1..Len(Matching) : Convertible(Matching[i])
        THEN /\ response.status = "ok"
             /\ Len(response.restaurants) = Len(Matching)
        ELSE /\ response.status = "error"
             /\ response.exception \in {"KeyError", "ValidationError"}
             /\ DOMAIN response = {"status", "exception", "outcome"}

\* of two matching rows the first can be converted, the second has NULL in
\* a required column: the request fails
C30_Witness ==
    /\ response.status = "error" /\ response.outcome.kind = "ok"
    /\ Len(Matching) = 2
    /\ Convertible(Matching[1])
    /\ \E c \in RequiredColumns : Matching[2][c] = NULL

====
